---- MODULE Spec2Model ----
(***************************************************************************)
(* A model of the two Jira sentiment pipelines of the repository:          *)
(*   sentiment_exec_summary.py  (the breadth-first pipeline, "Exec")       *)
(*   jira_sentiment.py          (the direct-query pipeline, "Sent")        *)
(* Scores are Python floats, modelled bit for bit as IEEE-754 binary64.     *)
(***************************************************************************)
EXTENDS Integers, Sequences, FiniteSets, TLC

(* ------------------------------ bounds -------------------------------- *)
NKeys == 3          \* issue keys known to the tracker: 1..NKeys
MaxKids == 2        \* longest list of issues one search returns
MaxDepthB == 2      \* largest max_depth tried

Keys == 1..NKeys
RootKey == 1        \* root_key: the issue named on the command line
NoKey == 0          \* an issue map without a "key" entry (issue.get("key") is None)
Unknown == {NoKey}   \* a child list not asked for yet (no real one holds NoKey)
NoField == 0        \* find_field_id_by_name / find_field_id returning None
None == "None"

VARIABLES
  pc,               \* position of main() of sentiment_exec_summary.py
  parent_link_field_id,  \* main: result of find_field_id_by_name("Parent Link")
  max_depth,        \* collect_in_progress_descendants: parameter
  seen,             \* collect_in_progress_descendants: the visited set
  frontier,         \* collect_in_progress_descendants: queue of <<key, depth>>
  all_keys,         \* collect_in_progress_descendants: the result list
  children,         \* tracker: key -> keys a filtered child query returns (Unknown until asked)
  queried,          \* log: <<key, depth>> of every child query issued
  idx,              \* main: position of the for loop over in_progress_keys
  analyses,         \* main: the rows that reach the report
  failed,           \* log: keys whose analyze_issue raised
  summary,          \* main: what build_exec_summary returned
  fn,               \* the function of the repository being applied on its own
  arg,              \* its arguments
  returned,         \* whether it has returned
  ret,              \* what it returned
  local             \* its local variables while it loops

execVars == <<pc, parent_link_field_id, max_depth, seen, frontier, all_keys,
              children, queried, idx, analyses, failed, summary>>

callVars == <<fn, arg, returned, ret, local>>

vars == <<pc, parent_link_field_id, max_depth, seen, frontier, all_keys,
          children, queried, idx, analyses, failed, summary, fn, arg, returned, ret,
          local>>

(* ----------------------------- helpers -------------------------------- *)
SeqsUpTo(S, n) == UNION {[1..m -> S] : m \in 0..n}

Range(s) == {s[i] : i \in DOMAIN s}

NoDup(s) == \A i, j \in DOMAIN s : i # j => s[i] # s[j]

Count(x, s) == Cardinality({i \in DOMAIN s : s[i] = x})

Max2(a, b) == IF a >= b THEN a ELSE b

(* -------------------- IEEE-754 binary64 arithmetic --------------------- *)
\* Python floats are binary64.  A natural number is a little-endian sequence
\* of limbs in base 2^14 without high zero limbs; a float is sgn * man * 2^exp
\* with man of exactly 53 bits, or Zero.  Results are rounded to nearest, ties
\* to even.  The scores of this program stay far from the subnormal and the
\* overflow range, which are not modelled.
LimbBits == 14
Base == 16384
ManBits == 53

Min2(a, b) == IF a <= b THEN a ELSE b

Limb(a, i) == IF i <= Len(a) THEN a[i] ELSE 0

RECURSIVE BNorm(_)
BNorm(a) ==
  IF a # <<>> /\ a[Len(a)] = 0 THEN BNorm(SubSeq(a, 1, Len(a) - 1)) ELSE a

RECURSIVE BFromInt(_)
BFromInt(n) == IF n = 0 THEN <<>> ELSE <<n % Base>> \o BFromInt(n \div Base)

RECURSIVE IntBitLen(_)
IntBitLen(x) == IF x = 0 THEN 0 ELSE 1 + IntBitLen(x \div 2)

BitLen(a) ==
  IF a = <<>> THEN 0 ELSE LimbBits * (Len(a) - 1) + IntBitLen(a[Len(a)])

RECURSIVE CmpFrom(_, _, _)
CmpFrom(a, b, i) ==
  IF i = 0 THEN 0
  ELSE IF a[i] # b[i] THEN (IF a[i] < b[i] THEN -1 ELSE 1)
  ELSE CmpFrom(a, b, i - 1)

\* -1, 0, 1 as a < b, a = b, a > b
BCmp(a, b) ==
  IF Len(a) # Len(b) THEN (IF Len(a) < Len(b) THEN -1 ELSE 1)
  ELSE CmpFrom(a, b, Len(a))

RECURSIVE AddFrom(_, _, _, _)
AddFrom(a, b, i, c) ==
  IF i > Len(a) /\ i > Len(b) THEN (IF c = 0 THEN <<>> ELSE <<c>>)
  ELSE <<(Limb(a, i) + Limb(b, i) + c) % Base>>
         \o AddFrom(a, b, i + 1, (Limb(a, i) + Limb(b, i) + c) \div Base)

BAdd(a, b) == AddFrom(a, b, 1, 0)

\* a - b for a >= b
RECURSIVE SubFrom(_, _, _, _)
SubFrom(a, b, i, c) ==
  IF i > Len(a) THEN <<>>
  ELSE <<(a[i] - Limb(b, i) - c) % Base>>
         \o SubFrom(a, b, i + 1, IF a[i] - Limb(b, i) - c < 0 THEN 1 ELSE 0)

BSub(a, b) == BNorm(SubFrom(a, b, 1, 0))

\* a * x + c for one limb x
RECURSIVE MulFrom(_, _, _, _)
MulFrom(a, x, i, c) ==
  IF i > Len(a) THEN BFromInt(c)
  ELSE <<(a[i] * x + c) % Base>> \o MulFrom(a, x, i + 1, (a[i] * x + c) \div Base)

BMulSmall(a, x) == BNorm(MulFrom(a, x, 1, 0))

BShlLimbs(a, n) == IF a = <<>> THEN <<>> ELSE [i \in 1..n |-> 0] \o a

\* a * 2^k
BShl(a, k) == BShlLimbs(BMulSmall(a, 2 ^ (k % LimbBits)), k \div LimbBits)

\* floor(a / 2^k)
BShr(a, k) ==
  LET w == k \div LimbBits
      t == k % LimbBits
      hi == IF w >= Len(a) THEN <<>> ELSE SubSeq(a, w + 1, Len(a))
  IN BNorm([i \in 1..Len(hi) |->
              (hi[i] \div 2 ^ t) + (Limb(hi, i + 1) % 2 ^ t) * 2 ^ (LimbBits - t)])

\* a mod 2^k
BLow(a, k) ==
  LET w == k \div LimbBits
      t == k % LimbBits
  IN BNorm([i \in 1..Min2(Len(a), w + 1) |-> IF i <= w THEN a[i] ELSE a[i] % 2 ^ t])

\* bit i of a, bit 0 the lowest
BBit(a, i) == (Limb(a, i \div LimbBits + 1) \div 2 ^ (i % LimbBits)) % 2

RECURSIVE MulAcc(_, _, _)
MulAcc(a, b, i) ==
  IF i > Len(a) THEN <<>>
  ELSE BAdd(BShlLimbs(BMulSmall(b, a[i]), i - 1), MulAcc(a, b, i + 1))

BMul(a, b) == BNorm(MulAcc(a, b, 1))

\* long division by b of r * 2^(j+1) + (the low j+1 bits of limb x), for
\* r < b: the quotient digit qd and the remainder
RECURSIVE DivBits(_, _, _, _, _)
DivBits(r, b, x, j, qd) ==
  IF j < 0 THEN [q |-> qd, r |-> r]
  ELSE LET r2 == MulFrom(r, 2, 1, (x \div 2 ^ j) % 2)
       IN IF BCmp(r2, b) >= 0
            THEN DivBits(BSub(r2, b), b, x, j - 1, 2 * qd + 1)
            ELSE DivBits(r2, b, x, j - 1, 2 * qd)

\* long division, one limb of a at a time from limb i down
RECURSIVE DivLimbs(_, _, _, _, _)
DivLimbs(a, b, i, q, r) ==
  IF i = 0 THEN [q |-> BNorm(q), r |-> r]
  ELSE LET s == DivBits(r, b, a[i], LimbBits - 1, 0)
       IN DivLimbs(a, b, i - 1, <<s.q>> \o q, s.r)

\* floor(a / b) and a mod b, for b # 0
BDivMod(a, b) == DivLimbs(a, b, Len(a), <<>>, <<>>)

Zero == [sgn |-> 0, man |-> <<>>, exp |-> 0]

\* sgn * n * 2^e (plus a nonzero part below the last bit of n when sticky),
\* rounded to 53 bits
RoundBits(sgn, n, e, sticky) ==
  IF n = <<>> THEN Zero
  ELSE IF BitLen(n) <= ManBits
    THEN [sgn |-> sgn, man |-> BShl(n, ManBits - BitLen(n)),
          exp |-> e - (ManBits - BitLen(n))]
    ELSE LET r == BitLen(n) - ManBits
             q == BShr(n, r)
             c == BCmp(BLow(n, r), BShl(<<1>>, r - 1))
             up == c > 0 \/ (c = 0 /\ (sticky \/ BBit(q, 0) = 1))
             q2 == IF up THEN BAdd(q, <<1>>) ELSE q
         IN IF BitLen(q2) > ManBits
              THEN [sgn |-> sgn, man |-> BShr(q2, 1), exp |-> e + r + 1]
              ELSE [sgn |-> sgn, man |-> q2, exp |-> e + r]

\* (the operators below bind their arguments in a set: TLC evaluates the
\* arguments of an operator each time the body uses them, a bound value once)
FRound(sgn, n, e, sticky) ==
  CHOOSE r \in {RoundBits(sgn, m, e, sticky) : m \in {n}} : TRUE

FNeg(a) == [a EXCEPT !.sgn = 0 - a.sgn]

FAbs(a) == [a EXCEPT !.sgn = a.sgn * a.sgn]

\* -1, 0, 1 as a < b, a = b, a > b
Compare(a, b) ==
  IF a.sgn # b.sgn THEN (IF a.sgn < b.sgn THEN -1 ELSE 1)
  ELSE IF a.sgn = 0 THEN 0
  ELSE IF a.exp # b.exp THEN (IF a.exp < b.exp THEN 0 - a.sgn ELSE a.sgn)
  ELSE a.sgn * BCmp(a.man, b.man)

FCmp(a, b) == CHOOSE r \in {Compare(x, y) : x \in {a}, y \in {b}} : TRUE

Product(a, b) ==
  IF a.sgn = 0 \/ b.sgn = 0 THEN Zero
  ELSE FRound(a.sgn * b.sgn, BMul(a.man, b.man), a.exp + b.exp, FALSE)

FMul(a, b) == CHOOSE r \in {Product(x, y) : x \in {a}, y \in {b}} : TRUE

\* a / b for b # 0
Quotient(a, b) ==
  IF a.sgn = 0 THEN Zero
  ELSE LET dm == BDivMod(BShl(a.man, ManBits + 2), b.man)
       IN FRound(a.sgn * b.sgn, dm.q, a.exp - b.exp - (ManBits + 2), dm.r # <<>>)

FDiv(a, b) == CHOOSE r \in {Quotient(x, y) : x \in {a}, y \in {b}} : TRUE

Sum(a, b) ==
  IF a.sgn = 0 THEN b
  ELSE IF b.sgn = 0 THEN a
  ELSE LET e == Min2(a.exp, b.exp)
           na == BShl(a.man, a.exp - e)
           nb == BShl(b.man, b.exp - e)
           c == BCmp(na, nb)
       IN IF a.sgn = b.sgn THEN FRound(a.sgn, BAdd(na, nb), e, FALSE)
          ELSE IF c = 0 THEN Zero
          ELSE IF c > 0 THEN FRound(a.sgn, BSub(na, nb), e, FALSE)
          ELSE FRound(b.sgn, BSub(nb, na), e, FALSE)

FAdd(a, b) == CHOOSE r \in {Sum(x, y) : x \in {a}, y \in {b}} : TRUE

FSub(a, b) == FAdd(a, FNeg(b))

\* the float nearest to n / d (a float literal, or round(x, 4) of VADER)
FromDec(n, d) ==
  IF n = 0 THEN Zero
  ELSE LET a == BFromInt(IF n < 0 THEN 0 - n ELSE n)
           k == ManBits + 2 + IntBitLen(d) - BitLen(a)
           dm == BDivMod(BShl(a, k), BFromInt(d))
       IN FRound(IF n < 0 THEN -1 ELSE 1, dm.q, 0 - k, dm.r # <<>>)

(* ------------------------- strings and fields -------------------------- *)
\* A field name is a sequence of letters; "P","L","S","E" are capitals and
\* "p","l","s","e" their lower-case forms.  <<"P","L">> stands for "Parent Link",
\* <<"S","S">> for "Status Summary", <<"L","S","S">> for "Latest Status Summary".
Lower(c) ==
  CASE c = "P" -> "p" [] c = "L" -> "l" [] c = "S" -> "s" [] c = "E" -> "e"
    [] OTHER -> c

\* str.lower()
LowerStr(s) == [i \in DOMAIN s |-> Lower(s[i])]

\* the "in" operator on strings: sub is a contiguous part of s
Contains(sub, s) ==
  \E i \in 0..(Len(s) - Len(sub)) : SubSeq(s, i + 1, i + Len(sub)) = sub

ParentLink == <<"P", "L">>
StatusSummary == <<"S", "S">>
LatestStatusSummary == <<"L", "S", "S">>
EpicLink == <<"E", "L">>

\* the tracker's field list: field i of the list has id i (ids start at 1)
MkFields(names) == [i \in DOMAIN names |-> [name |-> names[i], id |-> i]]

\* jira_search_fields(keyword, limit) with limit above the list's length
jira_search_fields(fields, keyword) ==
  IF keyword = <<>> THEN fields
  ELSE SelectSeq(fields, LAMBDA f : Contains(LowerStr(keyword), LowerStr(f.name)))

\* find_field_id_by_name(name)
find_field_id_by_name(fields, name) ==
  LET found == jira_search_fields(fields, name)
      hits == {i \in DOMAIN found : LowerStr(found[i].name) = LowerStr(name)}
  IN IF hits = {} THEN NoField
     ELSE found[CHOOSE i \in hits : \A j \in hits : i <= j].id

(* -------------------- sentiment_exec_summary.py ------------------------ *)
MaxFields == 2      \* longest field list the tracker returns

ExecFieldNames == {ParentLink, <<"p", "l">>, <<"P", "L", "S">>, StatusSummary}

\* what one child search can return: issue keys, repeats and key-less issues
Results == SeqsUpTo(Keys \cup {NoKey}, MaxKids)

InProgress == "In Progress"

\* (status name, status category) pairs of the tracker's workflow
Statuses ==
  { [name |-> "To Do", cat |-> "To Do"],
    [name |-> InProgress, cat |-> InProgress],
    [name |-> "In Review", cat |-> InProgress],
    [name |-> "Done", cat |-> "Done"] }

\* compound scores VADER may give the combined text of an issue
ExecCompounds == {FromDec(-20, 100), Zero, FromDec(20, 100)}

\* the float literals 0.2 and -0.2
ExecUpper == FromDec(2, 10)

ExecLower == FromDec(-2, 10)

\* label_from_compound of sentiment_exec_summary.py
label_from_compound_exec(compound) ==
  IF FCmp(compound, ExecUpper) >= 0 THEN "positive"
  ELSE IF FCmp(compound, ExecLower) <= 0 THEN "negative"
  ELSE "neutral"

\* a collector that forgets the visited set
IsUnseen_NoVisitedCheck(key, seenSet) == key # NoKey

\* line 106: "if key and key not in seen"
IsUnseen(key, seenSet) == key # NoKey /\ key \notin seenSet

\* a collector that enqueues a child at the depth of its parent
ChildDepth_OfParent(depth) == depth

\* line 109: the depth a discovered key is enqueued with
ChildDepth(depth) == depth + 1

\* a collector that reads the head of the queue without removing it
PopFrontier_Peek(f) == f

\* line 100: what frontier.pop(0) leaves
PopFrontier(f) == Tail(f)

\* lines 104-109: the for loop over the issues one search returned
RECURSIVE Visit(_, _, _)
Visit(issues, st, depth) ==
  IF issues = <<>> THEN st
  ELSE LET key == Head(issues)
       IN Visit(Tail(issues),
                IF IsUnseen(key, st.seen)
                  THEN [seen |-> st.seen \cup {key},
                        all_keys |-> Append(st.all_keys, key),
                        frontier |-> Append(st.frontier, <<key, ChildDepth(depth)>>)]
                  ELSE st,
                depth)

\* build_exec_summary: the counts and the trend of the first sentence
Trend(pos, neu, neg) ==
  IF pos >= Max2(neg, neu) THEN "positive"
  ELSE IF neu >= Max2(pos, neg) THEN "neutral"
  ELSE "mixed"

build_exec_summary(rows) ==
  IF rows = <<>> THEN [empty |-> TRUE, trend |-> None, pos |-> 0, neu |-> 0, neg |-> 0]
  ELSE LET labels == [i \in DOMAIN rows |-> rows[i].label]
           pos == Count("positive", labels)
           neg == Count("negative", labels)
           neu == Count("neutral", labels)
       IN [empty |-> FALSE, trend |-> Trend(pos, neu, neg),
           pos |-> pos, neu |-> neu, neg |-> neg]

NoSummary == [empty |-> TRUE, trend |-> None, pos |-> 0, neu |-> 0, neg |-> 0]

ExecIdle ==
  /\ parent_link_field_id = NoField
  /\ max_depth = 0
  /\ seen = {}
  /\ frontier = <<>>
  /\ all_keys = <<>>
  /\ children = [k \in Keys |-> Unknown]
  /\ queried = <<>>
  /\ idx = 0
  /\ analyses = <<>>
  /\ failed = {}
  /\ summary = NoSummary

\* a function without loop has no local state worth a step
NoLocal == <<>>

CallIdle ==
  /\ fn = "none"
  /\ arg = <<>>
  /\ returned = FALSE
  /\ local = NoLocal
  /\ ret = <<>>

InitExec ==
  /\ pc = "start"
  /\ ExecIdle
  /\ CallIdle

\* a main that goes on without the field
Unresolved_Ignored(id) == FALSE

\* line 263: if not parent_link_field_id
Unresolved(id) == id = NoField

\* main, lines 258-267: resolve the field, then enter collect_in_progress_descendants
ExecResolve ==
  /\ pc = "start"
  /\ \E names \in SeqsUpTo(ExecFieldNames, MaxFields), d \in 0..MaxDepthB :
       LET id == find_field_id_by_name(MkFields(names), ParentLink) IN
       /\ parent_link_field_id' = id
       /\ IF Unresolved(id)
            THEN /\ pc' = "exit3"
                 /\ UNCHANGED <<max_depth, seen, frontier, all_keys>>
            ELSE /\ pc' = "bfs"
                 /\ max_depth' = d
                 /\ seen' = {RootKey}
                 /\ frontier' = << <<RootKey, 0>> >>
                 /\ all_keys' = <<RootKey>>
  /\ UNCHANGED <<children, queried, idx, analyses, failed, summary>>
  /\ UNCHANGED callVars

\* main, line 259: the field listing raises, nothing catches it
ExecFieldsFail ==
  /\ pc = "start"
  /\ pc' = "crashed"
  /\ UNCHANGED <<parent_link_field_id, max_depth, seen, frontier, all_keys,
                 children, queried, idx, analyses, failed, summary>>
  /\ UNCHANGED callVars

\* lines 99-102: an item at max_depth is dropped without a query
BfsSkip ==
  /\ pc = "bfs"
  /\ frontier # <<>>
  /\ Head(frontier)[2] >= max_depth
  /\ frontier' = PopFrontier(frontier)
  /\ UNCHANGED <<pc, parent_link_field_id, max_depth, seen, all_keys, children,
                 queried, idx, analyses, failed, summary>>
  /\ UNCHANGED callVars

\* lines 99-109: one iteration that queries the children of the dequeued key
BfsExpand ==
  /\ pc = "bfs"
  /\ frontier # <<>>
  /\ LET current == Head(frontier)[1]
         depth == Head(frontier)[2]
     IN /\ depth < max_depth
        /\ \E r \in Results :
             /\ \/ children[current] = Unknown
                \/ children[current] = Range(r) \ {NoKey}
             /\ LET st == Visit(r, [seen |-> seen, all_keys |-> all_keys,
                                    frontier |-> PopFrontier(frontier)], depth)
                IN /\ seen' = st.seen
                   /\ all_keys' = st.all_keys
                   /\ frontier' = st.frontier
             /\ children' = [children EXCEPT ![current] = Range(r) \ {NoKey}]
             /\ queried' = Append(queried, <<current, depth>>)
  /\ UNCHANGED <<pc, parent_link_field_id, max_depth, idx, analyses, failed, summary>>
  /\ UNCHANGED callVars

\* line 104: jira_search_jql raises; collect and main let it through
BfsQueryFails ==
  /\ pc = "bfs"
  /\ frontier # <<>>
  /\ Head(frontier)[2] < max_depth
  /\ pc' = "crashed"
  /\ UNCHANGED <<parent_link_field_id, max_depth, seen, frontier, all_keys,
                 children, queried, idx, analyses, failed, summary>>
  /\ UNCHANGED callVars

\* line 110 and 267: collect returns all_keys; its locals and the link graph
\* are not read again
BfsReturn ==
  /\ pc = "bfs"
  /\ frontier = <<>>
  /\ pc' = "analyze"
  /\ idx' = 1
  /\ seen' = {}
  /\ max_depth' = 0
  /\ children' = [k \in Keys |-> Unknown]
  /\ queried' = <<>>
  /\ UNCHANGED <<parent_link_field_id, frontier, all_keys, analyses, failed, summary>>
  /\ UNCHANGED callVars

\* statuses analyze_issue can read for a key: the root has any status, every
\* other key was returned by a search filtered on statuscategory "In Progress"
StatusesFor(key) ==
  IF key = RootKey THEN Statuses ELSE {s \in Statuses : s.cat = InProgress}

\* line 275: "if key == root_key or (a.get("status") == "In Progress")"
Included(key, a) == key = RootKey \/ a.status = InProgress

\* lines 271-276: analyze_issue returns
ExecAnalyzeOk ==
  /\ pc = "analyze"
  /\ idx <= Len(all_keys)
  /\ \E s \in StatusesFor(all_keys[idx]), c \in ExecCompounds :
       LET key == all_keys[idx]
           a == [key |-> key, status |-> s.name, cat |-> s.cat,
                 label |-> label_from_compound_exec(c)]
       IN analyses' = IF Included(key, a) THEN Append(analyses, a) ELSE analyses
  /\ idx' = idx + 1
  /\ UNCHANGED <<pc, parent_link_field_id, max_depth, seen, frontier, all_keys,
                 children, queried, failed, summary>>
  /\ UNCHANGED callVars

\* lines 277-280: analyze_issue raises; a warning is printed and the loop goes on
ExecAnalyzeFails ==
  /\ pc = "analyze"
  /\ idx <= Len(all_keys)
  /\ failed' = failed \cup {all_keys[idx]}
  /\ idx' = idx + 1
  /\ UNCHANGED <<pc, parent_link_field_id, max_depth, seen, frontier, all_keys,
                 children, queried, analyses, summary>>
  /\ UNCHANGED callVars

\* lines 283-288: print the rows and the executive summary
ExecReport ==
  /\ pc = "analyze"
  /\ idx > Len(all_keys)
  /\ summary' = build_exec_summary(analyses)
  /\ pc' = "done"
  /\ UNCHANGED <<parent_link_field_id, max_depth, seen, frontier, all_keys,
                 children, queried, idx, analyses, failed>>
  /\ UNCHANGED callVars

NextExec ==
  \/ ExecResolve
  \/ ExecFieldsFail
  \/ BfsSkip
  \/ BfsExpand
  \/ BfsQueryFails
  \/ BfsReturn
  \/ ExecAnalyzeOk
  \/ ExecAnalyzeFails
  \/ ExecReport

SpecExec == InitExec /\ [][NextExec]_vars

\* every search returns or raises, and the process keeps running
FairSpecExec == SpecExec /\ WF_vars(NextExec)

(* --------------------- claims on the Exec pipeline --------------------- *)
FrontierKeys(f) == [i \in DOMAIN f |-> f[i][1]]

ReportedKeys == {analyses[i].key : i \in DOMAIN analyses}

Collected == pc = "bfs" /\ frontier = <<>>

\* C1: on every link graph (diamonds and cycles included) and for every
\* max_depth, no issue key occurs twice in the list collect_in_progress_descendants
\* builds, and no step puts a key that is already in the visited set on the
\* frontier again.
C1_NoRevisit ==
  /\ [](NoDup(all_keys))
  /\ [][\A k \in seen :
          Count(k, FrontierKeys(frontier')) <= Count(k, FrontierKeys(frontier))]_vars

\* the traversal has ended on a graph where one child has two parents, one
\* search returned the root again, and every key was collected
C1_Witness ==
  /\ Collected
  /\ Len(all_keys) = NKeys
  /\ \E a, b \in Keys :
       /\ a # b
       /\ children[a] # Unknown
       /\ children[b] # Unknown
       /\ (children[a] \cap children[b]) \ {RootKey} # {}
  /\ \E a \in Keys \ {RootKey} : children[a] # Unknown /\ RootKey \in children[a]

\* C2: collect_in_progress_descendants terminates on every link graph, cycles
\* included, and for every max_depth >= 0: while it runs, its frontier
\* eventually becomes empty unless a search raises instead of returning.
C2_Terminates == (pc = "bfs") ~> (frontier = <<>> \/ pc = "crashed")

\* the traversal has ended after a search returned the searched key itself
\* and another search returned an ancestor
C2_Witness ==
  /\ Collected
  /\ max_depth >= 2
  /\ \E a \in Keys : children[a] # Unknown /\ a \in children[a]
  /\ \E a \in Keys \ {RootKey} : children[a] # Unknown /\ RootKey \in children[a]

\* C3: when the run has printed its report, the root issue is among the
\* reported issues whatever its status, and every other reported issue has
\* status category "In Progress".
C3_RootAlwaysReported ==
  pc = "done" =>
    /\ RootKey \in ReportedKeys
    /\ \A i \in DOMAIN analyses :
         analyses[i].key # RootKey => analyses[i].cat = InProgress

\* C8: when the run has printed its report, every issue whose analysis
\* raised is still among the reported issues, and every collected issue was
\* processed.
C8_FailedIssueStillReported ==
  pc = "done" =>
    /\ idx = Len(all_keys) + 1
    /\ \A k \in failed : k \in ReportedKeys

(* ========================== jira_sentiment.py ========================== *)
\* the Exec pipeline at rest, for the specifications of single functions
ExecOff ==
  /\ pc = "off"
  /\ ExecIdle

(* ---------------------------- find_field_id ---------------------------- *)
MaxCands == 2       \* longest list of candidate names

\* field names the tracker may have, and candidate names a caller may give
FieldNamePool ==
  {StatusSummary, <<"s", "s">>, LatestStatusSummary, ParentLink, <<"E">>}

CandNamePool == {StatusSummary, LatestStatusSummary, ParentLink, <<"s">>}

\* lines 72-76: the index of the first field whose name is one of the targets
FirstExact(fields, target_lower) ==
  LET hits == {i \in DOMAIN fields : LowerStr(fields[i].name) \in target_lower}
  IN IF hits = {} THEN 0 ELSE CHOOSE i \in hits : \A j \in hits : i <= j

\* lines 78-82: the index of the first field whose name contains a target
FirstFuzzy(fields, target_lower) ==
  LET hits == {i \in DOMAIN fields :
                 \E target \in target_lower : Contains(target, LowerStr(fields[i].name))}
  IN IF hits = {} THEN 0 ELSE CHOOSE i \in hits : \A j \in hits : i <= j

\* find_field_id(fields, target_names)
find_field_id(fields, target_names) ==
  LET target_lower == {LowerStr(n) : n \in Range(target_names)}
      e == FirstExact(fields, target_lower)
      f == FirstFuzzy(fields, target_lower)
  IN IF e # 0 THEN fields[e].id
     ELSE IF f # 0 THEN fields[f].id
     ELSE NoField

InitFields ==
  /\ ExecOff
  /\ fn = "find_field_id"
  /\ arg \in [fields : {MkFields(n) : n \in SeqsUpTo(FieldNamePool, MaxFields)},
              target_names : SeqsUpTo(CandNamePool, MaxCands)]
  /\ returned = FALSE
  /\ local = NoLocal
  /\ ret = NoField

CallFindFieldId ==
  /\ fn = "find_field_id"
  /\ ~returned
  /\ ret' = find_field_id(arg.fields, arg.target_names)
  /\ returned' = TRUE
  /\ UNCHANGED <<fn, arg, local>>
  /\ UNCHANGED execVars

NextFields == CallFindFieldId

SpecFields == InitFields /\ [][NextFields]_vars

\* the name of the field of arg.fields that has the given id
FieldNameOf(id) == arg.fields[CHOOSE i \in DOMAIN arg.fields : arg.fields[i].id = id].name

\* the candidates, in the order given, that some field matches exactly
ExactCands ==
  {c \in DOMAIN arg.target_names :
     \E i \in DOMAIN arg.fields :
       LowerStr(arg.fields[i].name) = LowerStr(arg.target_names[c])}

\* C4: find_field_id gives priority to the order of the candidates: when
\* fields match candidates exactly (ignoring case), the field returned is one
\* matching the earliest such candidate, whatever the order of the fields; a
\* field that only contains a candidate is returned only when no field matches
\* exactly; nothing is returned only when no field name contains a candidate.
C4_CandidateOrderWins ==
  (fn = "find_field_id" /\ returned) =>
    /\ ExactCands # {} =>
         /\ ret # NoField
         /\ LowerStr(FieldNameOf(ret))
              = LowerStr(arg.target_names[CHOOSE c \in ExactCands :
                                            \A d \in ExactCands : c <= d])
    /\ (ExactCands = {} /\ ret # NoField) =>
         \E c \in DOMAIN arg.target_names :
           Contains(LowerStr(arg.target_names[c]), LowerStr(FieldNameOf(ret)))
    /\ ret = NoField =>
         \A i \in DOMAIN arg.fields, c \in DOMAIN arg.target_names :
           ~Contains(LowerStr(arg.target_names[c]), LowerStr(arg.fields[i].name))

\* what find_field_id does instead: the first field, in the order of the
\* field list, that matches any candidate exactly
C4_FieldOrderWins ==
  (fn = "find_field_id" /\ returned /\ ExactCands # {}) =>
    /\ ret # NoField
    /\ \A i \in DOMAIN arg.fields :
         (\E c \in DOMAIN arg.target_names :
            LowerStr(arg.fields[i].name) = LowerStr(arg.target_names[c]))
         => ret <= arg.fields[i].id

(* ------------------------- label_from_compound ------------------------- *)
LabelSpan == 25     \* compounds -LabelSpan/100 .. LabelSpan/100 are labelled

\* label_from_compound of jira_sentiment.py
\* the float literals 0.05 and -0.05
SentUpper == FromDec(5, 100)

SentLower == FromDec(-5, 100)

label_from_compound(compound) ==
  IF FCmp(compound, SentUpper) > 0 THEN "positive"
  ELSE IF FCmp(compound, SentLower) < 0 THEN "negative"
  ELSE "neutral"

\* the compounds labelled: the hundredths, and what (x * 0.4) / 0.4 makes of them
LabelInputs ==
  {FromDec(k, 100) : k \in (0 - LabelSpan)..LabelSpan}
    \cup {FDiv(FMul(FromDec(k, 100), FromDec(4, 10)), FromDec(4, 10)) : k \in {-20, -5, 5, 20}}

InitLabel ==
  /\ ExecOff
  /\ fn \in {"label_from_compound", "label_from_compound_exec"}
  /\ arg \in [compound : LabelInputs]
  /\ returned = FALSE
  /\ local = NoLocal
  /\ ret = "none"

CallLabel ==
  /\ fn = "label_from_compound"
  /\ ~returned
  /\ ret' = label_from_compound(arg.compound)
  /\ returned' = TRUE
  /\ UNCHANGED <<fn, arg, local>>
  /\ UNCHANGED execVars

CallLabelExec ==
  /\ fn = "label_from_compound_exec"
  /\ ~returned
  /\ ret' = label_from_compound_exec(arg.compound)
  /\ returned' = TRUE
  /\ UNCHANGED <<fn, arg, local>>
  /\ UNCHANGED execVars

NextLabel ==
  \/ CallLabel
  \/ CallLabelExec

SpecLabel == InitLabel /\ [][NextLabel]_vars

\* the upper threshold of the label function applied (the lower is its negative)
UpperOf(f) == IF f = "label_from_compound" THEN FromDec(5, 100) ELSE FromDec(2, 10)

\* C5: both label functions return exactly one of positive, neutral and
\* negative: positive iff the compound is strictly above the upper threshold,
\* negative iff it is strictly below the lower threshold, neutral otherwise, so
\* a compound equal to a threshold is neutral (thresholds 0.05/-0.05 and 0.2/-0.2).
C5_StrictThresholds ==
  returned =>
    /\ ret \in {"positive", "neutral", "negative"}
    /\ ret = "positive" <=> FCmp(arg.compound, UpperOf(fn)) > 0
    /\ ret = "negative" <=> FCmp(arg.compound, FNeg(UpperOf(fn))) < 0

(* ----------------------- analyze_issue_sentiment ----------------------- *)
One == FromDec(1, 1)

\* the two float algorithms of Python's builtin sum: a left fold of additions
\* (up to Python 3.11) and Neumaier's compensated sum (from Python 3.12)
SumImpls == {"fold", "neumaier"}

RECURSIVE FoldSum(_, _, _)
FoldSum(xs, i, acc) ==
  IF i > Len(xs) THEN acc
  ELSE CHOOSE r \in {FoldSum(xs, i + 1, next) : next \in {FAdd(acc, xs[i])}} : TRUE

\* one step of the compensated sum: the running sum and the compensation
NeumaierStep(st, x) ==
  CHOOSE r \in {[hi |-> t,
                 lo |-> IF FCmp(FAbs(st.hi), FAbs(x)) >= 0
                          THEN FAdd(st.lo, FAdd(FSub(st.hi, t), x))
                          ELSE FAdd(st.lo, FAdd(FSub(x, t), st.hi))] :
                t \in {FAdd(st.hi, x)}} : TRUE

RECURSIVE NeumaierSum(_, _, _)
NeumaierSum(xs, i, st) ==
  IF i > Len(xs) THEN (IF st.lo.sgn # 0 THEN FAdd(st.hi, st.lo) ELSE st.hi)
  ELSE CHOOSE r \in {NeumaierSum(xs, i + 1, next) :
                       next \in {NeumaierStep(st, xs[i])}} : TRUE

\* sum(xs) of a non-empty list of floats
PySum(xs, impl) ==
  CHOOSE r \in {IF impl = "fold" THEN FoldSum(ys, 1, Zero)
                ELSE NeumaierSum(ys, 1, [hi |-> Zero, lo |-> Zero]) : ys \in {xs}} : TRUE

\* A text is None, "", white space only, or words; score is the compound VADER
\* gives the words, in ten-thousandths (VADER rounds to four decimals).
NoText == [kind |-> "empty", score |-> 0]

Words(score) == [kind |-> "text", score |-> score]

\* "x and x.strip()"
NonBlank(text) == text.kind = "text"

\* analyzer.polarity_scores(text).get("compound", 0.0)
polarity_compound(text) == FromDec(text.score, 10000)

StatusWeight == FromDec(6, 10)

CommentsWeight == FromDec(4, 10)

RECURSIVE Products(_, _, _)
Products(scores, weights, i) ==
  IF i > Len(scores) THEN <<>>
  ELSE <<FMul(scores[i], weights[i])>> \o Products(scores, weights, i + 1)

\* line 133: the weighted average of the scores collected
WeightedAverage(scores, weights, impl) ==
  CHOOSE r \in {FDiv(PySum(Products(scores, weights, 1), impl),
                     IF total.sgn = 0 THEN One ELSE total) :
                total \in {PySum(weights, impl)}} : TRUE

\* lines 119-129: the (score, weight) pairs of the texts that are not blank
Sources(status_summary, comments_text) ==
  (IF NonBlank(status_summary)
     THEN << <<polarity_compound(status_summary), StatusWeight>> >> ELSE <<>>)
  \o (IF NonBlank(comments_text)
        THEN << <<polarity_compound(comments_text), CommentsWeight>> >> ELSE <<>>)

\* analyze_issue_sentiment(analyzer, status_summary, comments_text): the compound
analyze_issue_sentiment(status_summary, comments_text, impl) ==
  CHOOSE r \in {IF both = <<>> THEN Zero
                ELSE WeightedAverage([i \in DOMAIN both |-> both[i][1]],
                                     [i \in DOMAIN both |-> both[i][2]], impl) :
                both \in {Sources(status_summary, comments_text)}} : TRUE

\* compounds VADER gives a text, in ten-thousandths
ScorePool == {-10000, -9300, -6000, -4000, -500, 0, 500, 5000, 8000, 10000}

StatusTexts ==
  {[kind |-> k, score |-> 0] : k \in {"none", "empty", "blank"}}
    \cup {Words(x) : x \in ScorePool}

CommentTexts ==
  {[kind |-> k, score |-> 0] : k \in {"empty", "blank"}} \cup {Words(x) : x \in ScorePool}

InitScore ==
  /\ ExecOff
  /\ fn = "analyze_issue_sentiment"
  /\ arg \in [status_summary : StatusTexts, comments_text : CommentTexts,
              sum_impl : SumImpls]
  /\ returned = FALSE
  /\ local = NoLocal
  /\ ret = Zero

CallAnalyzeIssueSentiment ==
  /\ fn = "analyze_issue_sentiment"
  /\ ~returned
  /\ ret' = analyze_issue_sentiment(arg.status_summary, arg.comments_text, arg.sum_impl)
  /\ returned' = TRUE
  /\ UNCHANGED <<fn, arg, local>>
  /\ UNCHANGED execVars

NextScore == CallAnalyzeIssueSentiment

SpecScore == InitScore /\ [][NextScore]_vars

\* x is within 10^-9 of num / 10^5
Near(x, num) ==
  /\ FCmp(x, FromDec(num * 10000 - 1, 1000000000)) >= 0
  /\ FCmp(x, FromDec(num * 10000 + 1, 1000000000)) <= 0

FMin(a, b) == IF FCmp(a, b) <= 0 THEN a ELSE b

FMax(a, b) == IF FCmp(a, b) >= 0 THEN a ELSE b

\* C6: analyze_issue_sentiment returns 0.6*s + 0.4*c when both texts are
\* non-blank, exactly s when only the status summary is, exactly c when only
\* the comments are, and exactly 0 when both are empty or white space; the
\* result lies between the smaller and the larger of the scores used, hence
\* within [-1, 1].
C6_WeightedMean ==
  (fn = "analyze_issue_sentiment" /\ returned) =>
    LET s == polarity_compound(arg.status_summary)
        c == polarity_compound(arg.comments_text)
        hasS == NonBlank(arg.status_summary)
        hasC == NonBlank(arg.comments_text)
    IN /\ (hasS /\ hasC) =>
            /\ Near(ret, 6 * arg.status_summary.score + 4 * arg.comments_text.score)
            /\ FCmp(ret, FMin(s, c)) >= 0
            /\ FCmp(ret, FMax(s, c)) <= 0
       /\ (hasS /\ ~hasC) => ret = s
       /\ (~hasS /\ hasC) => ret = c
       /\ (~hasS /\ ~hasC) => ret = Zero
       /\ FCmp(ret, FNeg(One)) >= 0
       /\ FCmp(ret, One) <= 0

(* --------------------------- comment windowing -------------------------- *)
MaxComments == 2

SecondMs == 1000

HourMs == 60 * 60 * SecondMs

\* timedelta(days=1), in milliseconds
DayMs == 24 * HourMs

\* datetime.now(timezone.utc) / datetime.utcnow(), milliseconds since the epoch
Now == 8 * DayMs

DigitChars == <<"0", "1", "2", "3", "4", "5", "6", "7", "8", "9">>

IsDigit(c) == c \in Range(DigitChars)

DigitVal(c) == (CHOOSE i \in 1..10 : DigitChars[i] = c) - 1

AllDigits(s) == \A i \in DOMAIN s : IsDigit(s[i])

Take(s, n) == SubSeq(s, 1, Min2(n, Len(s)))

Drop(s, n) == SubSeq(s, n + 1, Len(s))

\* the value of the fraction digits, to the millisecond
FracMs(digs) ==
  LET p == digs \o <<"0", "0", "0">>
  IN 100 * DigitVal(p[1]) + 10 * DigitVal(p[2]) + DigitVal(p[3])

\* a UTC offset as written: "Z", "+hhmm" or "+hh:mm"
ZoneMatch(z) ==
  \/ z = <<"Z">>
  \/ Len(z) = 5 /\ z[1] \in {"+", "-"} /\ AllDigits(Drop(z, 1))
  \/ Len(z) = 6 /\ z[1] \in {"+", "-"} /\ z[4] = ":"
       /\ AllDigits(SubSeq(z, 2, 3)) /\ AllDigits(SubSeq(z, 5, 6))

ZoneOff(z) ==
  IF z = <<>> \/ z = <<"Z">> THEN 0
  ELSE LET d == SelectSeq(Drop(z, 1), IsDigit)
           minutes == (10 * DigitVal(d[1]) + DigitVal(d[2])) * 60
                        + 10 * DigitVal(d[3]) + DigitVal(d[4])
       IN (IF z[1] = "-" THEN -1 ELSE 1) * minutes * 60 * SecondMs

\* the lengths k for which text is "." followed by k digits (%f takes 1 to 6)
FracLens(text) ==
  {k \in 1..Min2(6, Len(text) - 1) : text[1] = "." /\ AllDigits(SubSeq(text, 2, k + 1))}

\* A creation timestamp "YYYY-MM-DDTHH:MM:SS" + tail. head is the wall-clock
\* reading of the first 19 characters in milliseconds, tail the characters that
\* follow; instant is the instant the writer of the stamp meant (not read by
\* the parsers).
NoStamp == [present |-> FALSE, head |-> 0, tail |-> <<>>, instant |-> 0]

MkStamp(head, frac, zone) ==
  [present |-> TRUE, head |-> head,
   tail |-> (IF frac = <<>> THEN <<>> ELSE <<".">> \o frac) \o zone,
   instant |-> head + FracMs(frac) - ZoneOff(zone)]

\* isoparse(created_raw)
iso_to_dt(stamp) ==
  LET tail == stamp.tail
      dotted == tail # <<>> /\ tail[1] = "."
      runs == {k \in 1..(Len(tail) - 1) : AllDigits(SubSeq(tail, 2, k + 1))}
      k == IF dotted /\ runs # {} THEN CHOOSE n \in runs : \A m \in runs : m <= n ELSE 0
      rest == IF dotted THEN Drop(tail, k + 1) ELSE tail
  IN [ok |-> (dotted => k >= 1) /\ (rest = <<>> \/ ZoneMatch(rest)),
      t |-> stamp.head + FracMs(SubSeq(tail, 2, k + 1)),
      aware |-> rest # <<>>,
      off |-> IF ZoneMatch(rest) THEN ZoneOff(rest) ELSE 0]

\* lines 319-335 of gather_data: the positions of the comments whose bodies
\* are joined into comments_text
RecentComments(comments, days, now) ==
  LET cutoff == now - days * DayMs
      Keep(i) ==
        LET c == comments[i]
            created_dt == iso_to_dt(c)
            off == IF created_dt.aware THEN created_dt.off ELSE 0
        IN c.present /\ created_dt.ok /\ created_dt.t - off >= cutoff
  IN SelectSeq([i \in DOMAIN comments |-> i], Keep)

FixedSuffix == <<"+", "0", "0", "0", "0">>

\* line 122: strptime(created_str[:23] + "+0000", "%Y-%m-%dT%H:%M:%S.%f+0000")
StrptimeFixed(stamp) ==
  LET text == Take(stamp.tail, 4) \o FixedSuffix
      ks == {k \in FracLens(text) : Drop(text, k + 1) = FixedSuffix}
  IN IF ks = {} THEN [ok |-> FALSE, t |-> 0]
     ELSE [ok |-> TRUE,
           t |-> stamp.head + FracMs(SubSeq(text, 2, (CHOOSE k \in ks : TRUE) + 1))]

\* line 125: strptime(created_str, "%Y-%m-%dT%H:%M:%S.%f%z"), taken to UTC
StrptimeZone(stamp) ==
  LET text == stamp.tail
      ks == {k \in FracLens(text) : ZoneMatch(Drop(text, k + 1))}
  IN IF ks = {} THEN [ok |-> FALSE, t |-> 0]
     ELSE LET k == CHOOSE n \in ks : TRUE
          IN [ok |-> TRUE,
              t |-> stamp.head + FracMs(SubSeq(text, 2, k + 1)) - ZoneOff(Drop(text, k + 1))]

\* filter_comments_last_days(comments, days): the positions retained
filter_comments_last_days(comments, days, now) ==
  LET cutoff == now - days * DayMs
      Keep(i) ==
        LET c == comments[i]
            first == StrptimeFixed(c)
            created == IF first.ok THEN first ELSE StrptimeZone(c)
        IN c.present /\ created.ok /\ created.t >= cutoff
  IN SelectSeq([i \in DOMAIN comments |-> i], Keep)

WindowDays == {1, 7}

Fracs == {<<>>, <<"5">>, <<"0", "0">>, <<"0", "0", "0">>}

ZoneTexts == {<<>>, <<"Z">>, <<"-", "0", "5", "0", "0">>}

\* stamps whose instant or whose wall-clock reading is at the cutoff or a second before
StampsNear(cutoff) ==
  {NoStamp} \cup
  {MkStamp(cutoff + o + d, f, z) :
     o \in {0, -5 * HourMs}, d \in {-SecondMs, 0}, f \in Fracs, z \in ZoneTexts}

InitWindow ==
  /\ ExecOff
  /\ fn \in {"gather_data", "filter_comments_last_days"}
  /\ \E days \in WindowDays :
       \E comments \in SeqsUpTo(StampsNear(Now - days * DayMs), MaxComments) :
         arg = [comments |-> comments, days |-> days, now |-> Now]
  /\ returned = FALSE
  /\ local = NoLocal
  /\ ret = <<>>

CallGatherData ==
  /\ fn = "gather_data"
  /\ ~returned
  /\ ret' = RecentComments(arg.comments, arg.days, arg.now)
  /\ returned' = TRUE
  /\ UNCHANGED <<fn, arg, local>>
  /\ UNCHANGED execVars

CallFilterCommentsLastDays ==
  /\ fn = "filter_comments_last_days"
  /\ ~returned
  /\ ret' = filter_comments_last_days(arg.comments, arg.days, arg.now)
  /\ returned' = TRUE
  /\ UNCHANGED <<fn, arg, local>>
  /\ UNCHANGED execVars

NextWindow == CallGatherData \/ CallFilterCommentsLastDays

SpecWindow == InitWindow /\ [][NextWindow]_vars

InWindow(i) ==
  /\ arg.comments[i].present
  /\ arg.comments[i].instant >= arg.now - arg.days * DayMs

\* C7: both the inline filter of gather_data and filter_comments_last_days
\* retain a comment if and only if the instant its creation timestamp denotes
\* (offset applied, no offset read as UTC, with or without fractional seconds)
\* is at or after now - windowDays, and the retained comments keep their order.
C7_WindowKeepsRecent ==
  (fn \in {"gather_data", "filter_comments_last_days"} /\ returned) =>
    ret = SelectSeq([i \in DOMAIN arg.comments |-> i], InWindow)

\* C9: for a non-empty list of rows build_exec_summary names the trend positive
\* when pos is (or ties for) the maximum, otherwise neutral when neu is (or ties
\* for) the maximum, and negative exactly when neg is the unique maximum.
C9_TrendTieBreak ==
  (pc = "done" /\ ~summary.empty) =>
    LET pos == Count("positive", [i \in DOMAIN analyses |-> analyses[i].label])
        neu == Count("neutral", [i \in DOMAIN analyses |-> analyses[i].label])
        neg == Count("negative", [i \in DOMAIN analyses |-> analyses[i].label])
    IN /\ (pos >= neu /\ pos >= neg) => summary.trend = "positive"
       /\ (~(pos >= neu /\ pos >= neg) /\ neu >= neg) => summary.trend = "neutral"
       /\ (summary.trend = "negative") <=> (neg > pos /\ neg > neu)

(* ------------------------------ build_report ---------------------------- *)
MaxChildren == 2

\* the narrative of one issue: details[key] of gather_data
IssueTexts ==
  [status_summary_text : {NoText, Words(-6000), Words(5000)}, comments_text : {NoText}]
    \cup {[status_summary_text |-> Words(5000), comments_text |-> Words(500)]}

\* line 170: all_issues = [top_issue] + child_issues
AllIssues_ChildrenOnly(top_issue, child_issues) == child_issues

AllIssues(top_issue, child_issues) == <<top_issue>> \o child_issues

RECURSIVE Compounds(_, _, _)
\* lines 171-184: the compound of every issue from the i-th on
Compounds(all_issues, i, impl) ==
  IF i > Len(all_issues) THEN <<>>
  ELSE <<analyze_issue_sentiment(all_issues[i].status_summary_text,
                                 all_issues[i].comments_text, impl)>>
         \o Compounds(all_issues, i + 1, impl)

\* lines 206-207: the mean of the compounds and its label
Overall(compounds, impl) ==
  CHOOSE r \in {[compounds |-> compounds,
                 sentiments |-> [i \in DOMAIN compounds |->
                                  label_from_compound(compounds[i])],
                 avg |-> avg,
                 overall_label |-> label_from_compound(avg)] :
                avg \in {IF compounds # <<>>
                           THEN FDiv(PySum(compounds, impl), FromDec(Len(compounds), 1))
                           ELSE Zero}} : TRUE

\* lines 170-207: the per-issue compounds and labels, their mean and its label
build_report(top_issue, child_issues, impl) ==
  CHOOSE r \in {Overall(compounds, impl) :
                compounds \in {Compounds(AllIssues(top_issue, child_issues), 1, impl)}} : TRUE

NoReport == [compounds |-> <<>>, sentiments |-> <<>>, avg |-> Zero, overall_label |-> None]

InitReport ==
  /\ ExecOff
  /\ fn = "build_report"
  /\ arg \in [top_issue : IssueTexts, child_issues : SeqsUpTo(IssueTexts, MaxChildren),
              sum_impl : SumImpls]
  /\ returned = FALSE
  /\ local = NoLocal
  /\ ret = NoReport

CallBuildReport ==
  /\ fn = "build_report"
  /\ ~returned
  /\ ret' = build_report(arg.top_issue, arg.child_issues, arg.sum_impl)
  /\ returned' = TRUE
  /\ UNCHANGED <<fn, arg, local>>
  /\ UNCHANGED execVars

NextReport == CallBuildReport

SpecReport == InitReport /\ [][NextReport]_vars

\* the weighted mean of one issue's scores, in units of 10^-5
ExactCompound(texts) ==
  LET s == texts.status_summary_text
      c == texts.comments_text
  IN IF NonBlank(s) /\ NonBlank(c) THEN 6 * s.score + 4 * c.score
     ELSE IF NonBlank(s) THEN 10 * s.score
     ELSE IF NonBlank(c) THEN 10 * c.score
     ELSE 0

RECURSIVE SumExact(_, _)
SumExact(rows, i) ==
  IF i > Len(rows) THEN 0 ELSE ExactCompound(rows[i]) + SumExact(rows, i + 1)

\* x is within 10^-8 of (total / 10^5) / n
NearMean(x, total, n) ==
  /\ FCmp(x, FromDec(total * 1000 - n, n * 100000000)) >= 0
  /\ FCmp(x, FromDec(total * 1000 + n, n * 100000000)) <= 0

\* a root without narrative and two children scored -0.6 and +0.5
Scenario ==
  /\ fn = "build_report"
  /\ arg.top_issue = [status_summary_text |-> NoText, comments_text |-> NoText]
  /\ arg.child_issues =
       << [status_summary_text |-> Words(-6000), comments_text |-> NoText],
          [status_summary_text |-> Words(5000), comments_text |-> NoText] >>

MeanOfAllRows ==
  (fn = "build_report" /\ returned) =>
    /\ NearMean(ret.avg, SumExact(<<arg.top_issue>> \o arg.child_issues, 1),
                1 + Len(arg.child_issues))
    /\ ret.overall_label =
         (IF FCmp(ret.avg, FromDec(5, 100)) > 0 THEN "positive"
          ELSE IF FCmp(ret.avg, FromDec(-5, 100)) < 0 THEN "negative"
          ELSE "neutral")

\* C10 (as stated): the overall compound is the arithmetic mean of the
\* per-issue compounds and the overall label is the label of that mean; for a
\* root without narrative and two children scored -0.6 and +0.5 the overall
\* compound is (-0.6 + 0.5) / 2 = -0.05.
C10_ScenarioMeanOfChildren ==
  /\ MeanOfAllRows
  /\ (Scenario /\ returned) => NearMean(ret.avg, -5000, 1)

\* C10 (amended): the overall compound is the arithmetic mean (to within
\* floating-point rounding) of the compounds of the root and of every child,
\* and the overall label is the label of that mean; for a root without
\* narrative and two children scored -0.6 and +0.5 the root counts with
\* compound 0, so the overall compound is (0 - 0.6 + 0.5) / 3 = -0.0333...,
\* labelled neutral.
C10_ScenarioMeanOfAll ==
  /\ MeanOfAllRows
  /\ (Scenario /\ returned) =>
       /\ ret.compounds = <<Zero, FromDec(-6, 10), FromDec(5, 10)>>
       /\ NearMean(ret.avg, -10000, 3)
       /\ ret.overall_label = "neutral"

C10_Witness ==
  /\ Scenario
  /\ returned
  /\ Len(ret.compounds) = 3
  /\ ret.overall_label = "neutral"

(* ------------------------------- search --------------------------------- *)
\* line 61: the page size jira_search_jql asks for at most
SearchPageSize == 50

\* line 279 of jira_sentiment.py: search_issues(..., limit=100)
GatherLimit == 100

\* the tracker: a query matches the issues 1..total, and a response holds at
\* most cap of them whatever maxResults asks for
ServicePage(total, cap, start_at, max_results) ==
  LET n == Max2(0, Min2(total - start_at, Min2(max_results, cap)))
  IN [i \in 1..n |-> start_at + i]

SearchTotals == {0, 1, 49, 50, 51, 100, 101, 120}

ServiceCaps == {1, 30, 50, 1000}

SearchLimits == {0, 1, 50, 60, 200}

InitSearch ==
  /\ ExecOff
  /\ \/ /\ fn = "jira_search_jql"
        /\ arg \in [total : SearchTotals, cap : ServiceCaps, limit : SearchLimits]
     \/ /\ fn = "search_issues"
        /\ arg \in [total : SearchTotals, cap : ServiceCaps, limit : {GatherLimit}]
  /\ returned = FALSE
  /\ ret = <<>>
  /\ local = [start_at |-> 0, results |-> <<>>, requests |-> 0]

\* lines 57-72 of jira_search_jql: one turn of the loop, and the return
SearchJqlPage ==
  /\ fn = "jira_search_jql"
  /\ ~returned
  /\ LET max_results == Min2(SearchPageSize, arg.limit - Len(local.results))
         issues == ServicePage(arg.total, arg.cap, local.start_at, max_results)
         results == local.results \o issues
         stop == Len(issues) = 0 \/ Len(results) >= arg.limit
     IN IF max_results <= 0
          THEN /\ returned' = TRUE
               /\ ret' = local.results
               /\ local' = local
          ELSE /\ returned' = stop
               /\ ret' = IF stop THEN results ELSE ret
               /\ local' = [start_at |-> IF stop THEN local.start_at
                                         ELSE local.start_at + Len(issues),
                            results |-> results,
                            requests |-> local.requests + 1]
  /\ UNCHANGED <<fn, arg>>
  /\ UNCHANGED execVars

\* lines 276-280 of gather_data: child_issues = search_issues(...).get("issues", [])
CallSearchIssues ==
  /\ fn = "search_issues"
  /\ ~returned
  /\ ret' = ServicePage(arg.total, arg.cap, 0, arg.limit)
  /\ returned' = TRUE
  /\ local' = [local EXCEPT !.requests = 1]
  /\ UNCHANGED <<fn, arg>>
  /\ UNCHANGED execVars

NextSearch == SearchJqlPage \/ CallSearchIssues

SpecSearch == InitSearch /\ [][NextSearch]_vars

\* C11: for a query matching T issues on a service returning at most P issues
\* a page, the search returns the first min(limit, T) issues, none repeated or
\* skipped and never more than limit; this for jira_search_jql and for
\* search_issues as gather_data calls it (limit = 100).
C11_SearchPaginates ==
  (fn \in {"jira_search_jql", "search_issues"} /\ returned) =>
    ret = [i \in 1..Min2(arg.limit, arg.total) |-> i]

(* ------------------------------ comments -------------------------------- *)
\* line 84 of sentiment_exec_summary.py: min(50, ...)
ExecCommentPage == 50

\* line 59 of jira_sentiment.py: min(100, ...)
SentCommentPage == 100

MaxRequests == 8    \* page requests counted (the count stops there)

\* GET /issue/{key}/comment: the issue has the comments 1..actual and a
\* response holds at most cap of them; the body reports total, and maxResults
\* (the page size applied) unless the tracker leaves it out
CommentsResponse(svc, start_at, max_results) ==
  [comments |-> ServicePage(svc.actual, svc.cap, start_at, max_results),
   maxResults |-> IF svc.echo THEN Max2(0, Min2(max_results, svc.cap)) ELSE 0,
   total |-> svc.total]

CommentServices ==
  {[actual |-> a, cap |-> c, total |-> a + x, echo |-> e] :
     a \in {0, 1, 3, 5, 120}, c \in {2, 1000}, x \in {0, 4}, e \in BOOLEAN}

CommentLimits == {1, 3, 4, 200}

\* start_at and the list collected, and a log: pages requested, whether a page
\* came back shorter than requested, and whether a page was requested after
\* a short page or after the limit was reached
InitComments ==
  /\ ExecOff
  /\ fn \in {"get_comments", "jira_get_all_comments"}
  /\ arg \in [svc : CommentServices, limit : CommentLimits]
  /\ returned = FALSE
  /\ ret = <<>>
  /\ local = [start_at |-> 0, comments |-> <<>>, requests |-> 0,
              short |-> FALSE, late |-> FALSE]

Logged(max_results, page, before) ==
  [requests |-> Min2(local.requests + 1, MaxRequests),
   short |-> local.short \/ Len(page) < max_results,
   late |-> local.late \/ local.short \/ (local.requests > 0 /\ before >= arg.limit)]

\* lines 58-64 of JiraClient.get_comments: one turn of the loop, and the return
GetCommentsPage ==
  /\ fn = "get_comments"
  /\ ~returned
  /\ LET max_results == Min2(SentCommentPage, arg.limit - local.start_at)
         data == CommentsResponse(arg.svc, local.start_at, max_results)
         comments == local.comments \o data.comments
         stop == Len(comments) >= arg.limit
                   \/ local.start_at + data.maxResults >= data.total
         log == Logged(max_results, data.comments, Len(local.comments))
     IN /\ returned' = stop
        /\ ret' = IF stop THEN comments ELSE ret
        /\ local' = [start_at |-> IF stop THEN local.start_at
                                  ELSE local.start_at + data.maxResults,
                     comments |-> comments, requests |-> log.requests,
                     short |-> log.short, late |-> log.late]
  /\ UNCHANGED <<fn, arg>>
  /\ UNCHANGED execVars

\* lines 83-91 of jira_get_all_comments: one turn of the loop, and the return
GetAllCommentsPage ==
  /\ fn = "jira_get_all_comments"
  /\ ~returned
  /\ LET max_results == Min2(ExecCommentPage, arg.limit - Len(local.comments))
         data == CommentsResponse(arg.svc, local.start_at, max_results)
         results == local.comments \o data.comments
         stop == Len(data.comments) = 0 \/ Len(results) >= arg.limit
         log == Logged(max_results, data.comments, Len(local.comments))
     IN /\ returned' = stop
        /\ ret' = IF stop THEN results ELSE ret
        /\ local' = [start_at |-> IF stop THEN local.start_at
                                  ELSE local.start_at + Len(data.comments),
                     comments |-> results, requests |-> log.requests,
                     short |-> log.short, late |-> log.late]
  /\ UNCHANGED <<fn, arg>>
  /\ UNCHANGED execVars

NextComments == GetCommentsPage \/ GetAllCommentsPage

SpecComments == InitComments /\ [][NextComments]_vars

\* C12: get_comments and jira_get_all_comments stop as soon as a page comes
\* back shorter than requested (an empty page included) or the limit is
\* reached: no page is requested after a short page, no page is appended
\* twice, and the loop ends (after at most limit + 1 requests), also when the
\* response leaves out maxResults or reports a total larger than what it returns.
C12_StopsAtShortPage ==
  (fn \in {"get_comments", "jira_get_all_comments"}) =>
    /\ ~local.late
    /\ NoDup(local.comments)
    /\ local.requests <= arg.limit + 1

(* ----------------------- unresolved fields ------------------------------ *)
\* what an issue holds under a field id: nothing, a string, an option object
\* ({"value": ...}, the value possibly null), or something else
EmptyText == ""

RawValues ==
  {[kind |-> "absent", text |-> EmptyText], [kind |-> "other", text |-> EmptyText],
   [kind |-> "option", text |-> EmptyText]}
    \cup {[kind |-> k, text |-> t] : k \in {"str", "option"}, t \in {"on track", " "}}

FieldIds == 1..MaxFields

\* fields_map.get(fid)
FieldValue(issue, fid) ==
  IF fid \in DOMAIN issue THEN issue[fid] ELSE [kind |-> "absent", text |-> EmptyText]

\* gather_data.extract_status_summary_text(issue)
extract_status_summary_text(issue, status_summary_field_id) ==
  IF status_summary_field_id = NoField THEN EmptyText
  ELSE LET raw_val == FieldValue(issue, status_summary_field_id)
       IN IF raw_val.kind \in {"option", "str"} THEN raw_val.text ELSE EmptyText

InitExtract ==
  /\ ExecOff
  /\ fn = "extract_status_summary_text"
  /\ arg \in [issue : [FieldIds -> RawValues],
              status_summary_field_id : {NoField} \cup FieldIds]
  /\ returned = FALSE
  /\ ret = EmptyText
  /\ local = NoLocal

\* line 310 of gather_data: status_summary_text = extract_status_summary_text(issue)
CallExtractStatusSummaryText ==
  /\ fn = "extract_status_summary_text"
  /\ ~returned
  /\ ret' = extract_status_summary_text(arg.issue, arg.status_summary_field_id)
  /\ returned' = TRUE
  /\ UNCHANGED <<fn, arg, local>>
  /\ UNCHANGED execVars

\* a run of sentiment_exec_summary.main, or gather_data reading one issue
InitUnresolved == InitExec \/ InitExtract

NextUnresolved == NextExec \/ CallExtractStatusSummaryText

SpecUnresolved == InitUnresolved /\ [][NextUnresolved]_vars

\* C13: when the Parent Link field cannot be resolved (main has no fallback
\* query) the run ends in the unresolved-field exit: no child query was or is
\* issued, the traversal loop is never entered, and nothing follows the exit;
\* an unresolved Status Summary field is no error: the status-summary text of
\* every issue is empty.
C13_UnresolvedField ==
  /\ [](/\ (pc \in {"bfs", "analyze", "done", "exit3"} /\ parent_link_field_id = NoField)
             => pc = "exit3"
        /\ pc = "exit3" =>
             /\ parent_link_field_id = NoField
             /\ queried = <<>> /\ frontier = <<>> /\ all_keys = <<>> /\ seen = {}
             /\ analyses = <<>>
        /\ (fn = "extract_status_summary_text" /\ returned
              /\ arg.status_summary_field_id = NoField) => ret = EmptyText)
  /\ [][pc # "exit3"]_vars

C13_Witness == pc = "exit3" /\ parent_link_field_id = NoField /\ queried = <<>>

(* ------------------------- depth of the traversal ----------------------- *)
\* the keys the child queries issued so far have returned for k
KnownKids(k) == IF children[k] = Unknown THEN {} ELSE children[k]

\* the keys at most d relationship edges from the root
RECURSIVE Within(_)
Within(d) ==
  IF d <= 0 THEN {RootKey}
  ELSE LET near == Within(d - 1) IN near \cup UNION {KnownKids(k) : k \in near}

\* the least number of edges from the root to k
MinDepth(k) == CHOOSE d \in 0..NKeys : k \in Within(d) /\ (d = 0 \/ k \notin Within(d - 1))

Asked == {queried[i][1] : i \in DOMAIN queried}

\* C14: a child query is issued for a key only when the key is dequeued with
\* depth < max_depth, keys are discovered at their minimum depth, and the
\* result is the root plus exactly the keys reachable from it through at most
\* max_depth edges of the filtered child queries; with max_depth = 0 the
\* result is [root] and no query is issued.
C14_DepthBoundedReach ==
  pc = "bfs" =>
    /\ \A i \in DOMAIN queried :
         /\ queried[i][2] < max_depth
         /\ queried[i][2] = MinDepth(queried[i][1])
    /\ \A i \in DOMAIN frontier : frontier[i][2] = MinDepth(frontier[i][1])
    /\ Collected =>
         /\ all_keys[1] = RootKey
         /\ Range(all_keys) = Within(max_depth)
         /\ max_depth > 0 => Asked = Within(max_depth - 1)
         /\ max_depth = 0 => (all_keys = <<RootKey>> /\ queried = <<>>)

\* the traversal has ended with max_depth 2 on a graph where a key is one edge
\* from the root and also two edges from it, through another child, and its
\* own children were queried
C14_Witness ==
  /\ Collected
  /\ max_depth = 2
  /\ \E a, k \in Keys \ {RootKey} :
       /\ a # k
       /\ {a, k} \subseteq KnownKids(RootKey)
       /\ k \in KnownKids(a)
       /\ k \in Asked

====
